---- MODULE Spec2Model ----
(***************************************************************************)
(* Model of app.path.Path (src/src/app/path.py) and of the coordinate      *)
(* rounding helper of utils.geometry (src/src/utils/geometry.py).          *)
(*                                                                         *)
(* Numbers are fixed point: edge lengths are integers in 1/1000 of a unit, *)
(* path lengths (rounded to 2 decimals) in 1/100, len_diff (1 decimal) in  *)
(* 1/10, len_diff_rat (percent, 1 decimal) in 1/10 of a percent, and WGS   *)
(* coordinates in 1e-7 degree.  round(x, n) is Python's round: to the      *)
(* nearest multiple of the unit, a tie going to the even multiple (the      *)
(* representation error of binary floating point is not modelled).         *)
(* An optional value (Python None or a value) is the sequence <<>> or <<v>>.*)
(***************************************************************************)
EXTENDS Integers, Sequences, FiniteSets, TLC

VARIABLES
    edge_ids,        \* self.edge_ids (constructor argument)
    G,               \* the graph handler: edge id -> PathEdge
    edges,           \* self.edges
    edge_groups,     \* self.edge_groups: sequence of <<value, edges>>
    geometry,        \* self.geometry: None or the merged coordinate list
    length,          \* self.length: None or 1/100 units
    length_b,        \* self.length_b: unset (no attribute) or 1/100 units
    len_diff,        \* self.len_diff, 1/10 units
    len_diff_rat,    \* self.len_diff_rat: None or 1/10 percent
    missing_aqi,     \* self.missing_aqi
    missing_noises,  \* self.missing_noises
    noise_attrs,     \* self.noise_attrs: None or the summary object
    aqi_attrs,       \* self.aqi_attrs: None or the summary object
    result           \* what the last call returned or raised

vars == <<edge_ids, G, edges, edge_groups, geometry, length, length_b, len_diff,
          len_diff_rat, missing_aqi, missing_noises, noise_attrs, aqi_attrs, result>>

\* The fields of a Path other than edge_groups and the call's outcome.
other_fields == <<edge_ids, G, edges, geometry, length, length_b, len_diff,
                  len_diff_rat, missing_aqi, missing_noises, noise_attrs, aqi_attrs>>

(***************************************************************************)
(* Bounds of the model.                                                    *)
(***************************************************************************)
\* The most edges a path has.
MaxEdges == 3
\* No further segmentation is started once edge_groups holds this many groups.
MaxGroups == 2

\* The values an edge's aqi_cl and db_range take; 0 is the scan's initial
\* cur_group_id.
AqiClasses == {0, 1, 2}
DbRanges == {0, 1}
\* An edge's noises and aqi: None or a value.
NoiseValues == {<<>>, <<55>>}
AqiValues == {<<>>, <<2>>}
\* The length of a baseline path: None (never aggregated), 0, or positive.
BaseLengths == {<<>>, <<0>>, <<155>>, <<302>>}

(***************************************************************************)
(* Python values.                                                          *)
(***************************************************************************)
None == <<>>

Some(v) == <<v>>

IsNone(o) == o = <<>>

\* The outcome of a call of method op: its return value, or the exception raised.
Returned(op, v) == [op |-> op, kind |-> "return", val |-> v]

Raised(op, e) == [op |-> op, kind |-> e, val |-> <<>>]

\* round(n / d) for d > 0: nearest integer, ties to even.
PyRound(n, d) ==
    LET q == n \div d
        r == n % d
    IN  IF 2 * r < d THEN q
        ELSE IF 2 * r > d THEN q + 1
        ELSE IF q % 2 = 0 THEN q ELSE q + 1

RECURSIVE SumOf(_)
SumOf(s) == IF s = <<>> THEN 0 ELSE s[1] + SumOf(Tail(s))

RECURSIVE Flatten(_)
Flatten(ss) == IF ss = <<>> THEN <<>> ELSE ss[1] \o Flatten(Tail(ss))

(***************************************************************************)
(* utils.geometry                                                          *)
(***************************************************************************)
\* round(c, digits=6) of a coordinate held in 1e-7 degree.
RoundCoord(c) == PyRound(c, 10) * 10

round_coordinates(coords_list) ==
    [i \in 1..Len(coords_list) |->
        <<RoundCoord(coords_list[i][1]), RoundCoord(coords_list[i][2])>>]

(***************************************************************************)
(* Path.__init__ and the graph the path is resolved against.               *)
(***************************************************************************)
PathName == "path"

PathTypeValue == "clean"

CostCoeff == 0

\* Vertex i of the route; edge i runs from vertex i to vertex i + 1.
VertexWgs(i) == <<17 * i, 25 * i>>

Vertex(i) == <<100 * i, 200 * i>>

PathEdge(i, cl, db, n, a, len) ==
    [id |-> i, aqi_cl |-> cl, db_range |-> db, noises |-> n, aqi |-> a,
     length |-> len, length_b |-> len + 500,
     coords |-> <<Vertex(i), Vertex(i + 1)>>,
     coords_wgs |-> <<VertexWgs(i), VertexWgs(i + 1)>>]

InitPath ==
    /\ edges = <<>>
    /\ edge_groups = <<>>
    /\ geometry = None
    /\ length = None
    /\ length_b = None
    /\ len_diff = 0
    /\ len_diff_rat = None
    /\ missing_aqi = FALSE
    /\ missing_noises = FALSE
    /\ noise_attrs = None
    /\ aqi_attrs = None
    /\ result = Returned("__init__", <<>>)

(***************************************************************************)
(* Path.set_path_edges                                                     *)
(***************************************************************************)
get_path_edges_by_ids(ids) == [i \in 1..Len(ids) |-> G[ids[i]]]

set_path_edges ==
    /\ edges' = get_path_edges_by_ids(edge_ids)
    /\ result' = Returned("set_path_edges", <<>>)
    /\ UNCHANGED <<edge_ids, G, edge_groups, geometry, length, length_b, len_diff,
                   len_diff_rat, missing_aqi, missing_noises, noise_attrs, aqi_attrs>>

(***************************************************************************)
(* Path.aggregate_path_attrs                                               *)
(***************************************************************************)
EdgeCoords(edge) == edge.coords

EdgeLength(edge) == edge.length

EdgeLengthB(edge) == edge.length_b

EdgeNoises(edge) == edge.noises

EdgeAqi(edge) == edge.aqi

\* None in [x for x in list]
NoneIn(list) == \E i \in 1..Len(list) : IsNone(list[i])

aggregate_path_attrs ==
    /\ geometry' = Some(Flatten([j \in 1..Len(edges) |-> EdgeCoords(edges[j])]))
    /\ length' = Some(PyRound(SumOf([j \in 1..Len(edges) |-> EdgeLength(edges[j])]), 10))
    /\ length_b' = Some(PyRound(SumOf([j \in 1..Len(edges) |-> EdgeLengthB(edges[j])]), 10))
    /\ missing_noises' = NoneIn([j \in 1..Len(edges) |-> EdgeNoises(edges[j])])
    /\ missing_aqi' = NoneIn([j \in 1..Len(edges) |-> EdgeAqi(edges[j])])
    /\ result' = Returned("aggregate_path_attrs", <<>>)
    /\ UNCHANGED <<edge_ids, G, edges, edge_groups, len_diff, len_diff_rat,
                   noise_attrs, aqi_attrs>>

(***************************************************************************)
(* Path.aggregate_edge_groups_by_attr                                      *)
(***************************************************************************)
InitialGroupId == 0

\* Variant: only the call with both flags set is rejected.
ArgsInvalidBothOnly(aq, noise) == aq /\ noise

ArgsInvalid(aq, noise) == aq = noise \/ (~aq /\ ~noise)

\* Variant: the air quality class is read whatever the flag.
EdgeValueAqOnly(edge, aq) == edge.aqi_cl

\* value = edge.aqi_cl if aq else edge.db_range
EdgeValue(edge, aq) == IF aq THEN edge.aqi_cl ELSE edge.db_range

\* Variant: every edge opens a group of its own.
ScanStepNoMerge(st, edge, aq) ==
    [groups |-> IF st.cur_group # <<>>
                THEN Append(st.groups, <<st.cur_group_id, st.cur_group>>)
                ELSE st.groups,
     cur_group |-> <<edge>>,
     cur_group_id |-> IF aq THEN edge.aqi_cl ELSE edge.db_range]

\* Variant: the current group is appended without the test that it holds an edge.
ScanStepNoGuard(st, edge, aq) ==
    LET value == IF aq THEN edge.aqi_cl ELSE edge.db_range
    IN  IF value = st.cur_group_id
        THEN [st EXCEPT !.cur_group = Append(@, edge)]
        ELSE [groups |-> Append(st.groups, <<st.cur_group_id, st.cur_group>>),
              cur_group |-> <<edge>>,
              cur_group_id |-> value]

\* One iteration of the loop over self.edges.  st holds the locals and the
\* groups appended to self.edge_groups so far.
ScanStep(st, edge, aq) ==
    LET value == EdgeValue(edge, aq)
    IN  IF value = st.cur_group_id
        THEN [st EXCEPT !.cur_group = Append(@, edge)]
        ELSE [groups |-> IF st.cur_group # <<>>
                         THEN Append(st.groups, <<st.cur_group_id, st.cur_group>>)
                         ELSE st.groups,
              cur_group |-> <<edge>>,
              cur_group_id |-> value]

RECURSIVE ScanEdges(_, _, _)
ScanEdges(st, es, aq) ==
    IF es = <<>> THEN st ELSE ScanEdges(ScanStep(st, es[1], aq), Tail(es), aq)

\* Variant: the group still open when the loop ends is not appended.
GroupEdgesNoFinalAppend(groups, es, aq) ==
    ScanEdges([groups |-> groups, cur_group |-> <<>>, cur_group_id |-> 0], es, aq).groups

\* The loop and the final append, starting from the groups already held.
GroupEdges(groups, es, aq) ==
    LET st == ScanEdges([groups |-> groups, cur_group |-> <<>>,
                         cur_group_id |-> InitialGroupId], es, aq)
    IN  Append(st.groups, <<st.cur_group_id, st.cur_group>>)

aggregate_edge_groups_by_attr(aq, noise) ==
    /\ IF ArgsInvalid(aq, noise)
       THEN /\ result' = Raised("aggregate_edge_groups_by_attr", "ValueError")
            /\ UNCHANGED edge_groups
       ELSE /\ Len(edge_groups) < MaxGroups
            /\ edge_groups' = GroupEdges(edge_groups, edges, aq)
            /\ result' = Returned("aggregate_edge_groups_by_attr", <<>>)
    /\ UNCHANGED other_fields

(***************************************************************************)
(* Path.get_edge_groups_as_features, Path.get_as_geojson_feature           *)
(***************************************************************************)
EdgeCoordsWgs(edge) == edge.coords_wgs

get_geojson_feature_dict(coords) ==
    [type |-> "Feature",
     properties |-> <<>>,
     geometry |-> [coordinates |-> coords, type |-> "LineString"]]

\* Variant: the native coordinates are exported instead of the WGS ones.
GroupCoordsNative(group) ==
    round_coordinates(Flatten([j \in 1..Len(group[2]) |-> EdgeCoords(group[2][j])]))

GroupCoords(group) ==
    round_coordinates(Flatten([j \in 1..Len(group[2]) |-> EdgeCoordsWgs(group[2][j])]))

GroupFeature(group) ==
    [get_geojson_feature_dict(GroupCoords(group)) EXCEPT
        !.properties = [value |-> group[1], path |-> PathName,
                        p_len_diff |-> len_diff, p_length |-> length]]

EdgeGroupsAsFeatures == [j \in 1..Len(edge_groups) |-> GroupFeature(edge_groups[j])]

get_edge_groups_as_features ==
    /\ result' = Returned("get_edge_groups_as_features", EdgeGroupsAsFeatures)
    /\ UNCHANGED <<edge_groups, other_fields>>

PathCoords == round_coordinates(Flatten([j \in 1..Len(edges) |-> EdgeCoordsWgs(edges[j])]))

AsGeojsonFeature ==
    [get_geojson_feature_dict(PathCoords) EXCEPT
        !.properties = [type |-> PathTypeValue, id |-> PathName,
                        length |-> length, length_b |-> length_b,
                        len_diff |-> len_diff, len_diff_rat |-> len_diff_rat,
                        cost_coeff |-> CostCoeff,
                        missing_aqi |-> missing_aqi,
                        missing_noises |-> missing_noises,
                        noise_props |-> noise_attrs, aqi_props |-> aqi_attrs]]

\* self.length_b exists only once aggregate_path_attrs has run.
get_as_geojson_feature ==
    /\ result' = IF IsNone(length_b)
                 THEN Raised("get_as_geojson_feature", "AttributeError")
                 ELSE Returned("get_as_geojson_feature", <<AsGeojsonFeature>>)
    /\ UNCHANGED <<edge_groups, other_fields>>

(***************************************************************************)
(* Path.set_noise_attrs, Path.set_aqi_attrs.  The two factories live in    *)
(* app.path_noise_attrs and app.path_aqi_attrs: a summary object is held   *)
(* as the record of what it was built from, plus the diff later set on it. *)
(***************************************************************************)
DbCosts == "db_costs"

create_path_noise_attrs(noises_list, db_costs, len) ==
    [noises_list |-> noises_list, db_costs |-> db_costs, length |-> len, diff |-> None]

create_aqi_attrs(aqi_exp_list, len) ==
    [aqi_exp_list |-> aqi_exp_list, length |-> len, diff |-> None]

set_noise_diff_attrs(attrs, other, d) == [attrs EXCEPT !.diff = Some(<<other, d>>)]

set_aqi_diff_attrs(attrs, other, d) == [attrs EXCEPT !.diff = Some(<<other, d>>)]

EdgeAqiExp(edge) == <<edge.aqi, edge.length>>

\* Variant: the test of missing_noises is dropped.
set_noise_attrs_unconditional(db_costs) ==
    /\ noise_attrs' = Some(create_path_noise_attrs(
                          [j \in 1..Len(edges) |-> EdgeNoises(edges[j])], db_costs, length))
    /\ result' = Returned("set_noise_attrs", <<>>)
    /\ UNCHANGED <<edge_ids, G, edges, edge_groups, geometry, length, length_b,
                   len_diff, len_diff_rat, missing_aqi, missing_noises, aqi_attrs>>

set_noise_attrs(db_costs) ==
    /\ noise_attrs' = IF ~missing_noises
                      THEN Some(create_path_noise_attrs(
                                    [j \in 1..Len(edges) |-> EdgeNoises(edges[j])],
                                    db_costs, length))
                      ELSE noise_attrs
    /\ result' = Returned("set_noise_attrs", <<>>)
    /\ UNCHANGED <<edge_ids, G, edges, edge_groups, geometry, length, length_b,
                   len_diff, len_diff_rat, missing_aqi, missing_noises, aqi_attrs>>

set_aqi_attrs ==
    /\ aqi_attrs' = IF ~missing_aqi
                    THEN Some(create_aqi_attrs(
                                  [j \in 1..Len(edges) |-> EdgeAqiExp(edges[j])], length))
                    ELSE aqi_attrs
    /\ result' = Returned("set_aqi_attrs", <<>>)
    /\ UNCHANGED <<edge_ids, G, edges, edge_groups, geometry, length, length_b,
                   len_diff, len_diff_rat, missing_aqi, missing_noises, noise_attrs>>

(***************************************************************************)
(* Path.set_green_path_diff_attrs.  shortest_path is given by the fields   *)
(* read from it: length, noise_attrs, aqi_attrs.                           *)
(***************************************************************************)
\* round((d / b) * 100, 1) for d in 1/10 and b in 1/100 units; Python's
\* division raises ZeroDivisionError for b = 0.
RoundedRatio(d, b) ==
    IF b = 0 THEN Raised("/", "ZeroDivisionError")
    ELSE Returned("/", PyRound(d * 10000, b))

\* Variant: the division is made whatever the baseline's length.
LenDiffRatUnguarded(d, b) == RoundedRatio(d, b)

LenDiffRat(d, b) == IF b > 0 THEN RoundedRatio(d, b) ELSE Returned("/", 0)

\* round(self.length - shortest_path.length, 1)
LenDiff(a, b) == PyRound(a - b, 10)

set_green_path_diff_attrs(shortest_path) ==
    IF IsNone(length) \/ IsNone(shortest_path.length)
    THEN /\ result' = Raised("set_green_path_diff_attrs", "TypeError")
         /\ UNCHANGED <<edge_groups, other_fields>>
    ELSE LET d == LenDiff(length[1], shortest_path.length[1])
             rat == LenDiffRat(d, shortest_path.length[1])
         IN  /\ len_diff' = d
             /\ IF rat.kind # "return"
                THEN /\ result' = Raised("set_green_path_diff_attrs", rat.kind)
                     /\ UNCHANGED <<len_diff_rat, noise_attrs, aqi_attrs>>
                ELSE /\ len_diff_rat' = Some(rat.val)
                     /\ noise_attrs' =
                          IF ~IsNone(noise_attrs) /\ ~IsNone(shortest_path.noise_attrs)
                          THEN Some(set_noise_diff_attrs(noise_attrs[1],
                                        shortest_path.noise_attrs[1], d))
                          ELSE noise_attrs
                     /\ aqi_attrs' =
                          IF ~IsNone(aqi_attrs) /\ ~IsNone(shortest_path.aqi_attrs)
                          THEN Some(set_aqi_diff_attrs(aqi_attrs[1],
                                        shortest_path.aqi_attrs[1], d))
                          ELSE aqi_attrs
                     /\ result' = Returned("set_green_path_diff_attrs", <<>>)
             /\ UNCHANGED <<edge_ids, G, edges, edge_groups, geometry, length,
                            length_b, missing_aqi, missing_noises>>

\* The baseline paths handed to set_green_path_diff_attrs.
ShortestPaths ==
    [length : BaseLengths,
     noise_attrs : {None, Some("shortest_noise_attrs")},
     aqi_attrs : {None, Some("shortest_aqi_attrs")}]

(***************************************************************************)
(* Specification of segmentation and export: the graph's edges vary in     *)
(* their discretized values.                                               *)
(***************************************************************************)
InitGroups ==
    /\ \E n \in 0..MaxEdges :
        /\ edge_ids = [i \in 1..n |-> i]
        /\ \E cl \in [1..n -> AqiClasses], db \in [1..n -> DbRanges] :
              G = [i \in 1..n |-> PathEdge(i, cl[i], db[i], Some(55), Some(2), 1005 * i)]
    /\ InitPath

NextGroups ==
    \/ set_path_edges
    \/ aggregate_path_attrs
    \/ \E aq \in BOOLEAN, noise \in BOOLEAN : aggregate_edge_groups_by_attr(aq, noise)
    \/ get_edge_groups_as_features
    \/ get_as_geojson_feature

SpecGroups == InitGroups /\ [][NextGroups]_vars

(***************************************************************************)
(* Properties of segmentation (checked under SpecGroups).                  *)
(***************************************************************************)
Flags == BOOLEAN

GroupValue(group) == group[1]

GroupMembers(group) == group[2]

\* The edges of all groups, in order.
ConcatGroups(groups) == Flatten([j \in 1..Len(groups) |-> GroupMembers(groups[j])])

\* A call of aggregate_edge_groups_by_attr(aq, noise) that returns.
SegmentReturns(aq, noise) ==
    /\ result' = Returned("aggregate_edge_groups_by_attr", <<>>)
    /\ aggregate_edge_groups_by_attr(aq, noise)

\* Calls of the two exports.
GroupFeaturesCall ==
    result'.op = "get_edge_groups_as_features" /\ get_edge_groups_as_features

PathFeatureCall ==
    result'.op = "get_as_geojson_feature" /\ get_as_geojson_feature

\* The same, on a path whose edge_groups were never computed.
SegmentFresh(aq, noise) == edge_groups = <<>> /\ SegmentReturns(aq, noise)

Segmented ==
    result.op = "aggregate_edge_groups_by_attr" /\ result.kind = "return"

\* C1: after one successful segmentation of a path with no groups yet, the
\* groups' edge lists concatenated in order are exactly the path's edge list.
C1_ConcatenationIsEdgeList ==
    [][\A aq \in Flags, noise \in Flags :
          SegmentFresh(aq, noise) => ConcatGroups(edge_groups') = edges]_vars

C1_Witness ==
    /\ Segmented
    /\ Len(edges) = 3
    /\ Len(edge_groups) = 2
    /\ edges[1].aqi_cl = 0 /\ edges[1].db_range = 0
    /\ ConcatGroups(edge_groups) = edges

\* The edge list with one dimension's values wiped.
WithoutNoise(es) == [i \in 1..Len(es) |-> [es[i] EXCEPT !.db_range = 0]]

WithoutAq(es) == [i \in 1..Len(es) |-> [es[i] EXCEPT !.aqi_cl = 0]]

EdgeId(edge) == edge.id

\* A grouping as the values and the ids of each group's edges.
Shape(groups) ==
    [k \in 1..Len(groups) |->
        <<groups[k][1], [j \in 1..Len(groups[k][2]) |-> EdgeId(groups[k][2][j])]>>]

\* C2: after a segmentation of a path with no groups yet, every edge of a group
\* has the group's value in the chosen dimension (aqi_cl for air quality,
\* db_range for noise), and wiping the other dimension's values from the edges
\* gives the same grouping.
C2_GroupsAreHomogeneous ==
    [][\A aq \in Flags, noise \in Flags :
          SegmentFresh(aq, noise) =>
            /\ \A k \in 1..Len(edge_groups') :
                 \A i \in 1..Len(edge_groups'[k][2]) :
                    LET e == edge_groups'[k][2][i]
                    IN  (IF aq THEN e.aqi_cl ELSE e.db_range) = edge_groups'[k][1]
            /\ Shape(edge_groups') =
                 Shape(GroupEdges(<<>>, IF aq THEN WithoutNoise(edges)
                                        ELSE WithoutAq(edges), aq))]_vars

C2_Witness ==
    /\ Segmented
    /\ Len(edges) = 3
    /\ \A i \in 1..3 : edges[i].aqi_cl = 1
    /\ Shape(edge_groups) = << <<0, <<1>>>>, <<1, <<2, 3>>>> >>

\* The number of adjacent edge pairs whose values differ.
Changes(es, aq) ==
    Cardinality({i \in 1..(Len(es) - 1) :
        (IF aq THEN es[i].aqi_cl ELSE es[i].db_range) #
        (IF aq THEN es[i + 1].aqi_cl ELSE es[i + 1].db_range)})

\* C3: for a non-empty edge list the groups are the maximal runs of equal
\* consecutive values: no two consecutive groups share a value and there is
\* one group more than there are adjacent edge pairs with different values.
C3_GroupsAreMaximalRuns ==
    [][\A aq \in Flags, noise \in Flags :
          (SegmentFresh(aq, noise) /\ edges # <<>>) =>
            /\ \A k \in 1..(Len(edge_groups') - 1) :
                 edge_groups'[k][1] # edge_groups'[k + 1][1]
            /\ Len(edge_groups') = 1 + Changes(edges, aq)]_vars

C3_Witness ==
    /\ Segmented
    /\ Len(edges) = 3
    /\ edges[1].aqi_cl = 1 /\ edges[2].aqi_cl = 2 /\ edges[3].aqi_cl = 1
    /\ edge_groups = << <<1, <<edges[1]>>>>, <<2, <<edges[2]>>>>, <<1, <<edges[3]>>>> >>

\* C4: every group of edge_groups holds at least one edge, whatever the edge
\* list, the empty one included.
C4_NoEmptyGroup ==
    \A k \in 1..Len(edge_groups) : GroupMembers(edge_groups[k]) # <<>>

\* C5: the call raises ValueError when both flags are true or both are false,
\* and then changes no field of the path; with exactly one flag true it does
\* not raise ValueError.
C5_ExactlyOneFlag ==
    [][\A aq \in Flags, noise \in Flags :
          aggregate_edge_groups_by_attr(aq, noise) =>
            IF aq = noise
            THEN result'.kind = "ValueError" /\ UNCHANGED <<edge_groups, other_fields>>
            ELSE result'.kind # "ValueError"]_vars

C5_Witness ==
    /\ result.op = "aggregate_edge_groups_by_attr"
    /\ result.kind = "ValueError"
    /\ Len(edges) = 3
    /\ Len(edge_groups) = 2

\* C8: after any successful segmentation, the first or a later one, the
\* groups' edge lists concatenated reproduce the path's edge list exactly once.
C8_RepeatedCallsStillPartition ==
    [][\A aq \in Flags, noise \in Flags :
          SegmentReturns(aq, noise) => ConcatGroups(edge_groups') = edges']_vars

\* The scan with an explicit "no current group yet" marker in place of the
\* value 0: cur is None or <<value, edges>>.
RefStep(st, edge, aq) ==
    LET value == IF aq THEN edge.aqi_cl ELSE edge.db_range
    IN  IF st.cur # <<>> /\ st.cur[1][1] = value
        THEN [st EXCEPT !.cur = <<<<value, Append(st.cur[1][2], edge)>>>>]
        ELSE [done |-> st.done \o st.cur, cur |-> <<<<value, <<edge>>>>>>]

RECURSIVE RefScan(_, _, _)
RefScan(st, es, aq) ==
    IF es = <<>> THEN st ELSE RefScan(RefStep(st, es[1], aq), Tail(es), aq)

RefGroups(es, aq) ==
    LET st == RefScan([done |-> <<>>, cur |-> <<>>], es, aq) IN st.done \o st.cur

\* C9: for a non-empty edge list, a first edge of value 0 included, the
\* segmentation emits no empty group and gives the same groups as the scan
\* that marks "no current group yet" explicitly.
C9_SentinelIsHarmless ==
    [][\A aq \in Flags, noise \in Flags :
          (SegmentFresh(aq, noise) /\ edges # <<>>) =>
            /\ edge_groups' = RefGroups(edges, aq)
            /\ \A k \in 1..Len(edge_groups') : edge_groups'[k][2] # <<>>]_vars

C9_Witness ==
    /\ Segmented
    /\ Len(edges) = 3
    /\ edges[1].db_range = 0 /\ edges[2].db_range = 1 /\ edges[3].db_range = 0
    /\ edge_groups = RefGroups(edges, FALSE)
    /\ Len(edge_groups) = 3

FeatureCoords(feature) == feature.geometry.coordinates

\* C10: get_edge_groups_as_features returns one feature per group, in order,
\* with the group's value; after one segmentation of a path with no groups yet
\* the features' coordinate lists concatenated are the coordinate list of the
\* feature of get_as_geojson_feature; neither export changes edges or
\* edge_groups.  (The segmentation leaves every field the exports read but
\* edge_groups as it was, so the features are taken over edge_groups'.)
C10_GroupFeaturesCoverTheRoute ==
    /\ [][GroupFeaturesCall =>
            /\ result'.kind = "return"
            /\ Len(result'.val) = Len(edge_groups)
            /\ \A k \in 1..Len(edge_groups) :
                 result'.val[k].properties.value = edge_groups[k][1]
            /\ UNCHANGED <<edges, edge_groups>>]_vars
    /\ [][PathFeatureCall => UNCHANGED <<edges, edge_groups>>]_vars
    /\ [][\A aq \in Flags, noise \in Flags :
            SegmentFresh(aq, noise) =>
              LET after == edge_groups'
              IN  /\ UNCHANGED other_fields
                  /\ Flatten([j \in 1..Len(after) |->
                                FeatureCoords(GroupFeature(after[j]))])
                        = FeatureCoords(AsGeojsonFeature)]_vars

C10_Witness ==
    /\ result.op = "get_edge_groups_as_features"
    /\ Len(edges) = 3
    /\ Len(result.val) = 2
    /\ length # None
    /\ Flatten([j \in 1..Len(result.val) |-> FeatureCoords(result.val[j])])
         = FeatureCoords(AsGeojsonFeature)
    /\ FeatureCoords(AsGeojsonFeature)
         # Flatten([j \in 1..Len(edges) |-> EdgeCoordsWgs(edges[j])])

(***************************************************************************)
(* Specification of attribute aggregation: the graph's edges vary in       *)
(* whether their noise and air quality values are known.                   *)
(***************************************************************************)
InitAttrs ==
    /\ \E n \in 0..MaxEdges :
        /\ edge_ids = [i \in 1..n |-> i]
        /\ \E ns \in [1..n -> NoiseValues], as \in [1..n -> AqiValues] :
              G = [i \in 1..n |-> PathEdge(i, 1, 1, ns[i], as[i], 1005 * i)]
    /\ InitPath

NextAttrs ==
    \/ set_path_edges
    \/ aggregate_path_attrs
    \/ set_noise_attrs(DbCosts)
    \/ set_aqi_attrs

SpecAttrs == InitAttrs /\ [][NextAttrs]_vars

(***************************************************************************)
(* Properties of attribute aggregation (checked under SpecAttrs).          *)
(***************************************************************************)
\* C6: aggregate_path_attrs sets missing_noises iff some edge has no noise
\* value, and missing_aqi iff some edge has no air quality value; a call of
\* set_noise_attrs leaves noise_attrs as it is when missing_noises is set and
\* populates it otherwise, without touching aqi_attrs, and likewise for
\* set_aqi_attrs; nothing else changes noise_attrs or aqi_attrs.
C6_SummariesFollowMissingFlags ==
    /\ [][aggregate_path_attrs =>
            /\ missing_noises' <=> (\E i \in 1..Len(edges) : edges[i].noises = None)
            /\ missing_aqi' <=> (\E i \in 1..Len(edges) : edges[i].aqi = None)
            /\ UNCHANGED <<noise_attrs, aqi_attrs>>]_vars
    /\ [][set_noise_attrs(DbCosts) =>
            /\ IF missing_noises THEN noise_attrs' = noise_attrs
                                 ELSE noise_attrs' # None
            /\ UNCHANGED <<aqi_attrs, missing_noises, missing_aqi>>]_vars
    /\ [][set_aqi_attrs =>
            /\ IF missing_aqi THEN aqi_attrs' = aqi_attrs ELSE aqi_attrs' # None
            /\ UNCHANGED <<noise_attrs, missing_noises, missing_aqi>>]_vars
    /\ [][set_path_edges => UNCHANGED <<noise_attrs, aqi_attrs>>]_vars

C6_Witness ==
    /\ result.op = "set_noise_attrs"
    /\ Len(edges) = 3
    /\ edges[2].noises = None
    /\ missing_noises /\ noise_attrs = None
    /\ ~missing_aqi /\ aqi_attrs # None

(***************************************************************************)
(* Properties of the comparison with a baseline (checked under SpecDiff).  *)
(***************************************************************************)
Abs(x) == IF x < 0 THEN -x ELSE x

\* C7: with a baseline of length 0 the call returns and sets len_diff_rat to
\* 0; with a baseline of length b > 0 it sets len_diff to length - b within
\* half of 0.1, and len_diff_rat to len_diff / b * 100 within half of 0.1.
C7_DiffRatio ==
    [][\A sp \in ShortestPaths :
          (set_green_path_diff_attrs(sp) /\ length # None /\ sp.length # None) =>
            /\ result'.kind = "return"
            /\ 2 * Abs(10 * len_diff' - (length[1] - sp.length[1])) <= 10
            /\ IF sp.length[1] = 0
               THEN len_diff_rat' = Some(0)
               ELSE /\ len_diff_rat' # None
                    /\ 2 * Abs(len_diff_rat'[1] * sp.length[1] - 10000 * len_diff')
                         <= sp.length[1]]_vars

C7_Witness ==
    /\ result.op = "set_green_path_diff_attrs"
    /\ result.kind = "return"
    /\ length = Some(302)
    /\ len_diff = 30
    /\ len_diff_rat = Some(0)

(***************************************************************************)
(* Specification of the comparison with a baseline path: every edge's      *)
(* noise and air quality are known, the baseline varies.                   *)
(***************************************************************************)
InitDiff ==
    /\ \E n \in 0..MaxEdges :
        /\ edge_ids = [i \in 1..n |-> i]
        /\ G = [i \in 1..n |-> PathEdge(i, 1, 1, Some(55), Some(2), 1005 * i)]
    /\ InitPath

NextDiff ==
    \/ set_path_edges
    \/ aggregate_path_attrs
    \/ set_noise_attrs(DbCosts)
    \/ set_aqi_attrs
    \/ \E shortest_path \in ShortestPaths : set_green_path_diff_attrs(shortest_path)

SpecDiff == InitDiff /\ [][NextDiff]_vars

====
